---- MODULE Spec2Model ----
(***************************************************************************)
(* selfservice-portal: the lifecycle of run (main.go), the middleware      *)
(* pipeline built by route (recovery wrapping accesslog wrapping the mux), *)
(* the responseRecorder both stages use, the client of the upstream API    *)
(* (package pangolin) and the three route handlers.                        *)
(***************************************************************************)
EXTENDS Integers, Sequences, FiniteSets, TLC

\* Bounds of the model.
MaxInFlight == 1      \* connections served at the same time
MaxOps == 2           \* ResponseWriter calls one handler run makes
MaxHealth == 2        \* GET /health requests served at the same time
MaxClock == 2         \* half minutes the clock advances while the server runs

\* Program constants.
StatusOK == 200
StatusInternalServerError == 500

VARIABLES
    env,         \* the process environment run reads
    runPc,       \* where the main goroutine is in run / main
    srvPc,       \* where the goroutine of main.go:70 is
    listens,     \* calls of server.ListenAndServe so far
    errChan,     \* the buffered channel of main.go:69
    ctxDone,     \* ctx.Done() of the NotifyContext is closed
    cancelCalls, \* calls of cancel() (main.go:93)
    inShutdown,  \* server.Shutdown has been called
    deadline,    \* the 10 s context of main.go:84 has expired
    runErr,      \* what run returned
    exitCode,    \* the exit code of the process
    triggers,    \* the triggers in the order they occurred
    selectSaw,   \* the cases ready when run evaluated its select
    midFlight,   \* connections in flight when the signal arrived
    reqPc,       \* per connection: where its request is in the pipeline
    recWr,       \* per connection: the responseRecorder of recovery
    accWr,       \* per connection: the responseRecorder of accesslog
    sink,        \* per connection: the calls that reached the server's ResponseWriter
    nOps,        \* per connection: calls the handler has made
    fault,       \* per connection: the value the handler panicked with
    accessLog,   \* per connection: "accessed" entries logged
    errorLog,    \* per connection: "panic!" entries logged
    afterFault,  \* a request was accepted after a fault had been recovered
    upCall,      \* per connection: the upstream call its handler made
    route,       \* per connection: the handler the mux chose and its request
    now,         \* the monotonic clock, in half minutes since the server was built
    resUptime,   \* res.Uptime of handleGetHealth's closure, shared by its requests
    hPc,         \* per health request: where its handler is
    hNew,        \* per health request: the time.Since(up) it computed
    hCopy        \* per health request: the res.Uptime it handed to encode

lifeVars == <<env, runPc, srvPc, listens, errChan, ctxDone, cancelCalls,
              inShutdown, deadline, runErr, exitCode, triggers, selectSaw, midFlight>>
reqVars == <<reqPc, recWr, accWr, sink, nOps, fault, accessLog, errorLog, afterFault>>
cliVars == <<upCall, route>>
healthVars == <<now, resUptime, hPc, hNew, hCopy>>
auxVars == <<cliVars, healthVars>>
vars == <<lifeVars, reqVars, auxVars>>

Conns == 1..MaxInFlight

----------------------------------------------------------------------------
\* Values.

Unset == "<unset>"
NoErr == "nil"
Running == "<running>"
NoExit == -1

ErrServerClosed == "http: Server closed"
ErrBind == "listen tcp: bind: address already in use"
ErrAccept == "accept tcp: too many open files"
DeadlineExceeded == "context deadline exceeded"

\* What the environment may hold for PORT.
PortValues == {Unset, "8080", "http"}

\* strconv.Atoi succeeds on decimal strings only.
Atoi(s) == IF s \in {"8080", "1"} THEN [ok |-> TRUE, err |-> NoErr]
           ELSE [ok |-> FALSE, err |-> "strconv.Atoi: parsing " \o s \o ": invalid syntax"]

Envs == [PORT : PortValues, PANGOLIN_TOKEN : BOOLEAN,
         PANGOLIN_HOST : BOOLEAN, PANGOLIN_ORG : BOOLEAN]

\* The configuration phase without its last test: PANGOLIN_ORG is optional.
configErrorOrgOptional(e) ==
    IF e.PORT = Unset THEN "failed to find env PORT"
    ELSE IF ~Atoi(e.PORT).ok THEN Atoi(e.PORT).err
    ELSE IF ~e.PANGOLIN_TOKEN THEN "failed to find env PANGOLIN_TOKEN"
    ELSE IF ~e.PANGOLIN_HOST THEN "failed to find env PANGOLIN_HOST"
    ELSE NoErr

\* run, lines 34-57: the error the configuration phase returns, or NoErr.
configError(e) ==
    IF e.PORT = Unset THEN "failed to find env PORT"
    ELSE IF ~Atoi(e.PORT).ok THEN Atoi(e.PORT).err
    ELSE IF ~e.PANGOLIN_TOKEN THEN "failed to find env PANGOLIN_TOKEN"
    ELSE IF ~e.PANGOLIN_HOST THEN "failed to find env PANGOLIN_HOST"
    ELSE IF ~e.PANGOLIN_ORG THEN "failed to find env PANGOLIN_ORG"
    ELSE NoErr

\* The values a handler may panic with.
\* isErr: the value implements error; chain: what errors.Is finds in it;
\* text: what fmt.Sprint prints for it.
ErrAbortHandler == [isErr |-> TRUE, chain |-> {"ErrAbortHandler"},
                    text |-> "net/http: abort Handler"]
WrappedAbort == [isErr |-> TRUE, chain |-> {"wrap", "ErrAbortHandler"},
                 text |-> "copy: net/http: abort Handler"]
NilDeref == [isErr |-> TRUE, chain |-> {"runtime.Error"},
             text |-> "runtime error: invalid memory address or nil pointer dereference"]
StringPanic == [isErr |-> FALSE, chain |-> {}, text |-> "boom"]
Faults == {ErrAbortHandler, WrappedAbort, NilDeref, StringPanic}
NoFault == [isErr |-> FALSE, chain |-> {}, text |-> "<none>"]

Sprint(v) == v.text

Codes == {StatusOK, StatusInternalServerError}
Bodies == {"Success\n"}

\* Concurrent GET /health requests.
HealthReqs == 1..MaxHealth

\* A Go string: the bytes its pointer word points at, and its length word.
NoString == [ptr |-> "", len |-> 0]

\* A responseRecorder as accesslog and recovery construct it.
responseRecorder == [status |-> 0, numBytes |-> 0]


----------------------------------------------------------------------------
\* responseRecorder (main.go:173-194) and the server's ResponseWriter under it.

\* responseRecorder.WriteHeader: what the recorder holds after the call.
WriteHeader(re, statusCode) == [re EXCEPT !.status = statusCode]

\* responseRecorder.Write: what the recorder holds after the call.
Write(re, b) == [re EXCEPT !.numBytes = @ + Len(b)]

\* One call on the server's ResponseWriter; by: the stage that issued it.
SinkWriteHeader(code, by) == [op |-> "WriteHeader", code |-> code, body |-> "", by |-> by]
SinkWrite(b, by) == [op |-> "Write", code |-> 0, body |-> b, by |-> by]

\* http.Error(w, msg, code): one WriteHeader, then the message and a newline.
httpError(msg, code, by) == <<SinkWriteHeader(code, by), SinkWrite(msg \o "\n", by)>>

\* The status line the server sends: the first WriteHeader wins, and a Write
\* before any WriteHeader sends 200.
WireStatus(calls) ==
    IF calls = <<>> THEN 0
    ELSE IF calls[1].op = "WriteHeader" THEN calls[1].code
    ELSE StatusOK

----------------------------------------------------------------------------
\* The client of the upstream API (package pangolin, main.go:214-363).

StatusNotFound == 404

\* What InitPangolin received from the environment.
Token == "s3cr3t"
Host == "https://pangolin.example"
Org == "acme"

\* Response.Status for the status codes the upstream answers with.
UpCodes == {200, 201, 400, 503}
StatusText(code) ==
    CASE code = 200 -> "200 OK"
      [] code = 201 -> "201 Created"
      [] code = 400 -> "400 Bad Request"
      [] code = 503 -> "503 Service Unavailable"

\* PangolinResponse[T]: its fields, and its zero value for a zero T.
EnvelopeFields == {"data", "success", "error", "message", "status"}
ZeroEnvelope(zero) ==
    [data |-> zero, success |-> FALSE, error |-> FALSE, message |-> "", status |-> 0]

\* A response body. json: it parses as a JSON object; has: the envelope
\* fields the object holds; val: their values.
Doc(has, val) == [json |-> TRUE, has |-> has, val |-> val]
Malformed(zero) == [json |-> FALSE, has |-> {}, val |-> ZeroEnvelope(zero)]

\* json.Unmarshal(body, &resp): a field absent from the object keeps its
\* zero value.
Unmarshal(doc, zero) ==
    [f \in EnvelopeFields |-> IF f \in doc.has THEN doc.val[f] ELSE ZeroEnvelope(zero)[f]]

\* PangolinResources: its Resources list.
Svc == [resourceId |-> 1, name |-> "svc", enabled |-> TRUE, fullDomain |-> "svc.example.com"]
ZeroResources == <<>>
ResourceDocs ==
    { Doc(EnvelopeFields, [data |-> <<Svc>>, success |-> TRUE, error |-> FALSE,
                            message |-> "", status |-> 200]),
      Doc(EnvelopeFields, [data |-> <<Svc>>, success |-> FALSE, error |-> TRUE,
                            message |-> "org not found", status |-> 404]),
      Doc({"error", "message"}, [data |-> <<>>, success |-> FALSE, error |-> TRUE,
                                 message |-> "unauthorized", status |-> 0]),
      Doc({}, ZeroEnvelope(ZeroResources)),
      Malformed(ZeroResources) }

\* PangolinRule: every field is a pointer, <<>> for nil and <<v>> for &v.
RuleFields == {"ruleId", "resourceId", "enabled", "priority", "action", "match", "value"}
ZeroRule == [f \in RuleFields |-> <<>>]
StoredRule ==
    [ruleId |-> <<7>>, resourceId |-> <<1>>, enabled |-> <<TRUE>>, priority |-> <<10>>,
     action |-> <<"ACCEPT">>, match |-> <<"IP">>, value |-> <<"10.0.0.1">>]
RuleDocs ==
    { Doc(EnvelopeFields, [data |-> StoredRule, success |-> TRUE, error |-> FALSE,
                            message |-> "", status |-> 201]),
      Doc(EnvelopeFields, [data |-> StoredRule, success |-> FALSE, error |-> TRUE,
                            message |-> "duplicate rule", status |-> 400]),
      Doc({"error", "message"}, [data |-> ZeroRule, success |-> FALSE, error |-> TRUE,
                                 message |-> "duplicate rule", status |-> 0]),
      Doc({}, ZeroEnvelope(ZeroRule)),
      Malformed(ZeroRule) }

\* json.Marshal of a PangolinRule: omitempty leaves the nil fields out.
Marshal(rule) ==
    [f \in {g \in RuleFields : rule[g] # <<>>} |-> rule[f][1]]

\* What httpClient.Do gives: no response at all (transport # "ok"), or one
\* with a status code and a body that io.ReadAll can read or not.
NoResponse(zero) ==
    [transport |-> "Client.Timeout exceeded while awaiting headers", code |-> 0,
     readable |-> TRUE, doc |-> Malformed(zero)]
Responses(docs, zero) ==
    {NoResponse(zero)} \cup
    {r \in [transport : {"ok"}, code : UpCodes, readable : BOOLEAN, doc : docs] :
        ~r.readable => r.doc = Malformed(zero)}

\* No upstream call.
NoCall ==
    [op |-> "none", method |-> "", url |-> "", auth |-> "", ctype |-> "", sent |-> <<>>,
     code |-> 0, doc |-> Malformed(<<>>), readable |-> TRUE, transport |-> "",
     val |-> <<>>, err |-> NoErr, body |-> "none", tries |-> 0]

\* Pangolin.request (main.go:273-277) for one call: the two headers are
\* added and httpClient.Do is called once. What the call then returns is
\* val (<<>> for a nil pointer) and err; body is what became of res.Body.
called(op, method, url, sent, resp, val, err, body) ==
    [op |-> op, method |-> method, url |-> url,
     auth |-> "Bearer " \o Token, ctype |-> "application/json", sent |-> sent,
     code |-> resp.code, doc |-> resp.doc, readable |-> resp.readable,
     transport |-> resp.transport,
     val |-> val, err |-> err, body |-> body, tries |-> 1]

\* GetResources accepting every status below 300.
GetResourcesAny2xx(resp) ==
    LET url == Host \o "/v1" \o "/org/" \o Org \o "/resources"
        ret(val, err, body) == called("GetResources", "GET", url, <<>>, resp, val, err, body)
    IN  IF resp.transport # "ok" THEN ret(<<>>, resp.transport, "none")
        ELSE IF resp.code >= 300
             THEN ret(<<>>, "error status code: " \o StatusText(resp.code), "open")
        ELSE IF ~resp.readable THEN ret(<<>>, "unexpected EOF", "closed")
        ELSE IF ~resp.doc.json
             THEN ret(<<>>, "invalid character '<' looking for beginning of value", "closed")
        ELSE ret(<<Unmarshal(resp.doc, ZeroResources).data>>, NoErr, "closed")

\* Pangolin.GetResources (main.go:279-311) when the upstream answers resp.
GetResources(resp) ==
    LET url == Host \o "/v1" \o "/org/" \o Org \o "/resources"
        ret(val, err, body) == called("GetResources", "GET", url, <<>>, resp, val, err, body)
    IN  IF resp.transport # "ok" THEN ret(<<>>, resp.transport, "none")
        ELSE IF resp.code # 200
             THEN ret(<<>>, "error status code: " \o StatusText(resp.code), "open")
        ELSE IF ~resp.readable THEN ret(<<>>, "unexpected EOF", "closed")
        ELSE IF ~resp.doc.json
             THEN ret(<<>>, "invalid character '<' looking for beginning of value", "closed")
        ELSE ret(<<Unmarshal(resp.doc, ZeroResources).data>>, NoErr, "closed")

\* CreateRule refusing every status but 200, as GetResources does.
CreateRuleChecksStatus(rule, resourceID, resp) ==
    LET url == Host \o "/v1" \o "/resource/" \o resourceID \o "/rule"
        ret(val, err, body) ==
            called("CreateRule", "PUT", url, <<Marshal(rule)>>, resp, val, err, body)
        env0 == Unmarshal(resp.doc, ZeroRule)
    IN  IF resp.transport # "ok" THEN ret(<<>>, resp.transport, "none")
        ELSE IF resp.code # 200
             THEN ret(<<>>, "error status code: " \o StatusText(resp.code), "closed")
        ELSE IF ~resp.readable THEN ret(<<>>, "unexpected EOF", "closed")
        ELSE IF ~resp.doc.json
             THEN ret(<<>>, "invalid character '<' looking for beginning of value", "closed")
        ELSE IF env0.error THEN ret(<<>>, "error: " \o env0.message, "closed")
        ELSE ret(<<env0.data>>, NoErr, "closed")

\* Pangolin.CreateRule (main.go:313-351) when the upstream answers resp;
\* resourceID is the decimal text strconv.Itoa gives.
CreateRule(rule, resourceID, resp) ==
    LET url == Host \o "/v1" \o "/resource/" \o resourceID \o "/rule"
        ret(val, err, body) ==
            called("CreateRule", "PUT", url, <<Marshal(rule)>>, resp, val, err, body)
        env0 == Unmarshal(resp.doc, ZeroRule)
    IN  IF resp.transport # "ok" THEN ret(<<>>, resp.transport, "none")
        ELSE IF ~resp.readable THEN ret(<<>>, "unexpected EOF", "closed")
        ELSE IF ~resp.doc.json
             THEN ret(<<>>, "invalid character '<' looking for beginning of value", "closed")
        ELSE IF env0.error THEN ret(<<>>, "error: " \o env0.message, "closed")
        ELSE ret(<<env0.data>>, NoErr, "closed")

----------------------------------------------------------------------------
\* The route handlers (main.go:399-460).

\* What the server knows of the request a route handler serves.
NoRoute == [name |-> "none", id |-> "", ip |-> "", path |-> ""]
RegisterRoute(id, ip) == [name |-> "register", id |-> id, ip |-> ip, path |-> "/register/" \o id]
HomeRoute(path) == [name |-> "home", id |-> "", ip |-> "", path |-> path]

\* The rule handleRegisterIP builds from the X-Real-IP header (main.go:401-407).
registerRule(ip) ==
    [ruleId |-> <<>>, resourceId |-> <<>>, enabled |-> <<TRUE>>, priority |-> <<10>>,
     action |-> <<"ACCEPT">>, match |-> <<"IP">>, value |-> <<ip>>]

\* handleRegisterIP (main.go:399-422): the upstream call it makes and the
\* calls it makes on its ResponseWriter.
handleRegisterIP(id, ip, resp) ==
    IF ~Atoi(id).ok
    THEN [up |-> NoCall,
          calls |-> httpError(Atoi(id).err, StatusInternalServerError, "handler")]
    ELSE LET r == CreateRule(registerRule(ip), id, resp)
         IN  IF r.err # NoErr
             THEN [up |-> r, calls |-> httpError(r.err, StatusInternalServerError, "handler")]
             ELSE [up |-> r, calls |-> <<SinkWrite("Success\n", "handler")>>]

\* handleHomePage (main.go:424-460); executes: tpl.Execute succeeds (when
\* it fails here, it fails before it has written any of the page).
handleHomePage(path, resp, executes) ==
    IF path # "/"
    THEN [up |-> NoCall, calls |-> httpError("404 page not found", StatusNotFound, "handler")]
    ELSE LET r == GetResources(resp)
         IN  IF r.err # NoErr
             THEN [up |-> r, calls |-> httpError(r.err, StatusInternalServerError, "handler")]
             ELSE IF executes
             THEN [up |-> r, calls |-> <<SinkWrite("<html>svc</html>", "handler")>>]
             ELSE [up |-> r,
                   calls |-> httpError("template: home: write failed",
                                       StatusInternalServerError, "handler")]

\* The recorder after the calls of a handler run, in order.
RECURSIVE Recorded(_, _)
Recorded(re, calls) ==
    IF calls = <<>> THEN re
    ELSE Recorded(IF calls[1].op = "WriteHeader" THEN WriteHeader(re, calls[1].code)
                  ELSE Write(re, calls[1].body),
                  Tail(calls))

----------------------------------------------------------------------------
\* The two middleware stages (main.go:114-169).

\* errors.Is(err, http.ErrAbortHandler) on a value that implements error.
IsAbort(err) == err.isErr /\ "ErrAbortHandler" \in err.chain

\* recovery without the wr.status test: it answers 500 whatever was sent.
recoveryNoStatusCheck(err, wr) ==
    IF err = NoFault \/ IsAbort(err)
    THEN [log |-> <<>>, writes |-> <<>>, repanic |-> FALSE]
    ELSE [log |-> <<[level |-> "ERROR", msg |-> "panic!", error |-> Sprint(err)]>>,
          writes |-> httpError(Sprint(err), StatusInternalServerError, "recovery"),
          repanic |-> FALSE]

\* recovery answering with a fixed text instead of the fault's.
recoveryFixedBody(err, wr) ==
    IF err = NoFault \/ IsAbort(err)
    THEN [log |-> <<>>, writes |-> <<>>, repanic |-> FALSE]
    ELSE [log |-> <<[level |-> "ERROR", msg |-> "panic!", error |-> Sprint(err)]>>,
          writes |-> IF wr.status > 0 THEN <<>>
                     ELSE httpError("Internal Server Error", StatusInternalServerError, "recovery"),
          repanic |-> FALSE]

\* recovery comparing with == instead of errors.Is: a wrapped abort is a fault.
recoveryAbortByIdentity(err, wr) ==
    IF err = NoFault \/ err = ErrAbortHandler
    THEN [log |-> <<>>, writes |-> <<>>, repanic |-> FALSE]
    ELSE [log |-> <<[level |-> "ERROR", msg |-> "panic!", error |-> Sprint(err)]>>,
          writes |-> IF wr.status > 0 THEN <<>>
                     ELSE httpError(Sprint(err), StatusInternalServerError, "recovery"),
          repanic |-> FALSE]

\* recovery passing the abort signal on to the server, as net/http asks
\* handlers to.
recoveryRepanicsAbort(err, wr) ==
    IF err = NoFault
    THEN [log |-> <<>>, writes |-> <<>>, repanic |-> FALSE]
    ELSE IF IsAbort(err)
    THEN [log |-> <<>>, writes |-> <<>>, repanic |-> TRUE]
    ELSE [log |-> <<[level |-> "ERROR", msg |-> "panic!", error |-> Sprint(err)]>>,
          writes |-> IF wr.status > 0 THEN <<>>
                     ELSE httpError(Sprint(err), StatusInternalServerError, "recovery"),
          repanic |-> FALSE]

\* recovery's deferred function: err is what recover() returned (NoFault for
\* nil), wr the recorder recovery handed down. log: the entries it logs;
\* writes: the calls it makes on w; repanic: the panic leaves the stage.
recovery(err, wr) ==
    IF err = NoFault \/ IsAbort(err)
    THEN [log |-> <<>>, writes |-> <<>>, repanic |-> FALSE]
    ELSE [log |-> <<[level |-> "ERROR", msg |-> "panic!", error |-> Sprint(err)]>>,
          writes |-> IF wr.status > 0 THEN <<>>
                     ELSE httpError(Sprint(err), StatusInternalServerError, "recovery"),
          repanic |-> FALSE]

\* accesslog: the entries it logs; returned: next.ServeHTTP returned (the
\* log call follows it in the function body, outside any defer).
accesslog(returned, wr) ==
    IF returned
    THEN <<[level |-> "INFO", msg |-> "accessed", status |-> wr.status, bytes |-> wr.numBytes]>>
    ELSE <<>>

InFlight == {c \in Conns : reqPc[c] = "handler"}
Alive == exitCode = NoExit

\* The listener accepts a request on connection c; recovery and accesslog
\* each wrap the writer in a fresh recorder and the handler starts.
Accept(c) ==
    /\ Alive /\ srvPc = "listening" /\ ~inShutdown
    /\ reqPc[c] \in {"idle", "done"}
    /\ reqPc' = [reqPc EXCEPT ![c] = "handler"]
    /\ recWr' = [recWr EXCEPT ![c] = responseRecorder]
    /\ accWr' = [accWr EXCEPT ![c] = responseRecorder]
    /\ sink' = [sink EXCEPT ![c] = <<>>]
    /\ nOps' = [nOps EXCEPT ![c] = 0]
    /\ fault' = [fault EXCEPT ![c] = NoFault]
    /\ accessLog' = [accessLog EXCEPT ![c] = <<>>]
    /\ errorLog' = [errorLog EXCEPT ![c] = <<>>]
    /\ afterFault' = (afterFault \/ \E d \in Conns : fault[d] # NoFault)
    /\ upCall' = [upCall EXCEPT ![c] = NoCall]
    /\ route' = [route EXCEPT ![c] = NoRoute]
    /\ UNCHANGED <<lifeVars, healthVars>>

\* The handler calls w.WriteHeader(code): accesslog's recorder, then
\* recovery's, then the server's writer.
HandlerWriteHeader(c, code) ==
    /\ Alive /\ reqPc[c] = "handler" /\ nOps[c] < MaxOps
    /\ accWr' = [accWr EXCEPT ![c] = WriteHeader(@, code)]
    /\ recWr' = [recWr EXCEPT ![c] = WriteHeader(@, code)]
    /\ sink' = [sink EXCEPT ![c] = Append(@, SinkWriteHeader(code, "handler"))]
    /\ nOps' = [nOps EXCEPT ![c] = @ + 1]
    /\ UNCHANGED <<lifeVars, auxVars, reqPc, fault, accessLog, errorLog, afterFault>>

\* The handler calls w.Write(b), through the same chain.
HandlerWrite(c, b) ==
    /\ Alive /\ reqPc[c] = "handler" /\ nOps[c] < MaxOps
    /\ accWr' = [accWr EXCEPT ![c] = Write(@, b)]
    /\ recWr' = [recWr EXCEPT ![c] = Write(@, b)]
    /\ sink' = [sink EXCEPT ![c] = Append(@, SinkWrite(b, "handler"))]
    /\ nOps' = [nOps EXCEPT ![c] = @ + 1]
    /\ UNCHANGED <<lifeVars, auxVars, reqPc, fault, accessLog, errorLog, afterFault>>

\* The handler returns or panics with v (NoFault: it returns): accesslog
\* runs the rest of its body if control returns to it, then recovery's
\* deferred function runs.
HandlerEnds(c, v) ==
    /\ Alive /\ reqPc[c] = "handler"
    /\ LET r == recovery(v, recWr[c]) IN
        /\ fault' = [fault EXCEPT ![c] = v]
        /\ accessLog' = [accessLog EXCEPT ![c] = @ \o accesslog(v = NoFault, accWr[c])]
        /\ errorLog' = [errorLog EXCEPT ![c] = @ \o r.log]
        /\ sink' = [sink EXCEPT ![c] = @ \o r.writes]
        /\ reqPc' = [reqPc EXCEPT ![c] = IF r.repanic THEN "escaped" ELSE "done"]
    /\ UNCHANGED <<lifeVars, auxVars, recWr, accWr, nOps, afterFault>>

\* What a route handler's run leaves behind: its calls pass accesslog's
\* recorder, then recovery's, then reach the server's writer; the handler
\* returns, accesslog logs and recovery's deferred function finds no panic.
Served(c, h, rt) ==
    /\ Alive /\ reqPc[c] = "handler" /\ nOps[c] = 0
    /\ Len(h.calls) <= MaxOps
    /\ LET acc == Recorded(accWr[c], h.calls)
           rec == Recorded(recWr[c], h.calls)
           r == recovery(NoFault, rec)
       IN  /\ accWr' = [accWr EXCEPT ![c] = acc]
           /\ recWr' = [recWr EXCEPT ![c] = rec]
           /\ sink' = [sink EXCEPT ![c] = @ \o h.calls \o r.writes]
           /\ accessLog' = [accessLog EXCEPT ![c] = @ \o accesslog(TRUE, acc)]
           /\ errorLog' = [errorLog EXCEPT ![c] = @ \o r.log]
    /\ nOps' = [nOps EXCEPT ![c] = Len(h.calls)]
    /\ reqPc' = [reqPc EXCEPT ![c] = "done"]
    /\ upCall' = [upCall EXCEPT ![c] = h.up]
    /\ route' = [route EXCEPT ![c] = rt]
    /\ UNCHANGED <<lifeVars, healthVars, fault, afterFault>>

\* POST /register/{id} with X-Real-IP: ip, the upstream answering resp.
ServeRegister(c, id, ip, resp) ==
    Served(c, handleRegisterIP(id, ip, resp), RegisterRoute(id, ip))

\* GET path, the upstream answering resp.
ServeHomePage(c, path, resp, executes) ==
    Served(c, handleHomePage(path, resp, executes), HomeRoute(path))

----------------------------------------------------------------------------
\* handleGetHealth (main.go:380-397). res is one variable of the closure,
\* shared by every request; a Go string is two words, stored and loaded one
\* after the other with nothing ordering one request's accesses against
\* another's.

\* time.Duration.String for a whole number of half minutes.
DurationString(d) ==
    IF d = 0 THEN "0s"
    ELSE IF d = 1 THEN "30s"
    ELSE ToString(d \div 2) \o "m" \o (IF d % 2 = 0 THEN "0s" ELSE "30s")

\* The clock advances.
Tick ==
    /\ Alive /\ now < MaxClock
    /\ now' = now + 1
    /\ UNCHANGED <<lifeVars, reqVars, cliVars, resUptime, hPc, hNew, hCopy>>

\* Line 391, right-hand side: time.Since(up), up being time 0.
HealthSince(h) ==
    /\ Alive /\ srvPc = "listening" /\ hPc[h] = "idle"
    /\ hNew' = [hNew EXCEPT ![h] = now - 0]
    /\ hPc' = [hPc EXCEPT ![h] = "storePtr"]
    /\ UNCHANGED <<lifeVars, reqVars, cliVars, now, resUptime, hCopy>>

\* Line 391, the assignment to res.Uptime: first word.
HealthStorePtr(h) ==
    /\ Alive /\ hPc[h] = "storePtr"
    /\ resUptime' = [resUptime EXCEPT !.ptr = DurationString(hNew[h])]
    /\ hPc' = [hPc EXCEPT ![h] = "storeLen"]
    /\ UNCHANGED <<lifeVars, reqVars, cliVars, now, hNew, hCopy>>

\* Line 391, the assignment to res.Uptime: second word.
HealthStoreLen(h) ==
    /\ Alive /\ hPc[h] = "storeLen"
    /\ resUptime' = [resUptime EXCEPT !.len = Len(DurationString(hNew[h]))]
    /\ hPc' = [hPc EXCEPT ![h] = "loadPtr"]
    /\ UNCHANGED <<lifeVars, reqVars, cliVars, now, hNew, hCopy>>

\* Line 393, res passed by value to encode: first word of res.Uptime.
HealthLoadPtr(h) ==
    /\ Alive /\ hPc[h] = "loadPtr"
    /\ hCopy' = [hCopy EXCEPT ![h].ptr = resUptime.ptr]
    /\ hPc' = [hPc EXCEPT ![h] = "loadLen"]
    /\ UNCHANGED <<lifeVars, reqVars, cliVars, now, resUptime, hNew>>

\* Line 393, res passed by value to encode: second word of res.Uptime.
HealthLoadLen(h) ==
    /\ Alive /\ hPc[h] = "loadLen"
    /\ hCopy' = [hCopy EXCEPT ![h].len = resUptime.len]
    /\ hPc' = [hPc EXCEPT ![h] = "encode"]
    /\ UNCHANGED <<lifeVars, reqVars, cliVars, now, resUptime, hNew>>

\* Line 393, encode: the copy is written to the client as the response.
HealthEncode(h) ==
    /\ Alive /\ hPc[h] = "encode"
    /\ hPc' = [hPc EXCEPT ![h] = "done"]
    /\ UNCHANGED <<lifeVars, reqVars, cliVars, now, resUptime, hNew, hCopy>>

----------------------------------------------------------------------------
\* run and main (main.go:24-96).

\* run, lines 31-76: read the environment; on success build the server and
\* start the goroutine that serves.
RunConfig ==
    /\ runPc = "config"
    /\ IF configError(env) # NoErr
       THEN /\ runPc' = "ret_config"
            /\ runErr' = configError(env)
            /\ UNCHANGED srvPc
       ELSE /\ runPc' = "select"
            /\ srvPc' = "spawned"
            /\ UNCHANGED runErr
    /\ UNCHANGED <<env, listens, errChan, ctxDone, cancelCalls, inShutdown, deadline,
                   exitCode, triggers, selectSaw, midFlight, reqVars, auxVars>>

\* The test of line 72 without its second half: every error is a failure.
reportsAnyError(err) == err # NoErr

\* Line 72: what the goroutine does with the value ListenAndServe returned.
reports(err) == err # NoErr /\ err # ErrServerClosed

\* The goroutine handles ListenAndServe's return value err and ends. A send
\* on errChan wakes run at once if run is parked in the select.
ServeReturned(err) ==
    /\ srvPc' = "exited"
    /\ IF reports(err)
       THEN /\ errChan' = Append(errChan, err)
            /\ triggers' = Append(triggers, "err")
            /\ runPc' = IF runPc = "parked" THEN "gotErr" ELSE runPc
       ELSE UNCHANGED <<errChan, triggers, runPc>>

\* server.ListenAndServe is called and binds the port.
ServeListen ==
    /\ Alive /\ srvPc = "spawned" /\ ~inShutdown
    /\ srvPc' = "listening"
    /\ listens' = listens + 1
    /\ UNCHANGED <<env, runPc, errChan, ctxDone, cancelCalls, inShutdown, deadline,
                   runErr, exitCode, triggers, selectSaw, midFlight, reqVars, auxVars>>

\* server.ListenAndServe is called and returns at once: the port cannot be
\* bound, or Shutdown has already been called.
ServeListenFails ==
    /\ Alive /\ srvPc = "spawned"
    /\ listens' = listens + 1
    /\ ServeReturned(IF inShutdown THEN ErrServerClosed ELSE ErrBind)
    /\ UNCHANGED <<env, ctxDone, cancelCalls, inShutdown, deadline,
                   runErr, exitCode, selectSaw, midFlight, reqVars, auxVars>>

\* server.ListenAndServe returns while serving: Accept failed for good, or
\* Shutdown closed the listener.
ServeStops ==
    /\ Alive /\ srvPc = "listening"
    /\ ServeReturned(IF inShutdown THEN ErrServerClosed ELSE ErrAccept)
    /\ UNCHANGED <<env, listens, ctxDone, cancelCalls, inShutdown, deadline,
                   runErr, exitCode, selectSaw, midFlight, reqVars, auxVars>>

\* SIGINT or SIGTERM arrives: the NotifyContext of line 44 closes ctx.Done(),
\* which wakes run at once if run is parked in the select.
Signal ==
    /\ Alive /\ ~ctxDone
    /\ runPc \in {"select", "parked", "gotErr"}
    /\ ctxDone' = TRUE
    /\ triggers' = Append(triggers, "sig")
    /\ midFlight' = InFlight
    /\ runPc' = IF runPc = "parked" THEN "gotDone" ELSE runPc
    /\ UNCHANGED <<env, srvPc, listens, errChan, cancelCalls, inShutdown, deadline,
                   runErr, exitCode, selectSaw, reqVars, auxVars>>

\* The cases of the select of line 77 that can proceed.
Ready == (IF errChan # <<>> THEN {"err"} ELSE {}) \cup (IF ctxDone THEN {"sig"} ELSE {})

\* A select that can also take the ctx.Done() case of a context that is not
\* done, as one on an already cancelled context would.
selectCaseStale(ready) == ready \cup {"sig"}

\* select: the cases it may take among those that can proceed.
selectCase(ready) == ready

\* run evaluates the select: it takes a case that can proceed, or parks.
RunSelect ==
    /\ runPc = "select"
    /\ selectSaw' = Ready
    /\ IF Ready = {}
       THEN runPc' = "parked"
       ELSE \E c \in selectCase(Ready) : runPc' = IF c = "err" THEN "gotErr" ELSE "gotDone"
    /\ UNCHANGED <<env, srvPc, listens, errChan, ctxDone, cancelCalls, inShutdown, deadline,
                   runErr, exitCode, triggers, midFlight, reqVars, auxVars>>

\* Lines 78-79: run returns the error it received.
RunReturnErr ==
    /\ runPc = "gotErr"
    /\ runErr' = Head(errChan)
    /\ errChan' = Tail(errChan)
    /\ runPc' = "ret_err"
    /\ UNCHANGED <<env, srvPc, listens, ctxDone, cancelCalls, inShutdown, deadline,
                   exitCode, triggers, selectSaw, midFlight, reqVars, auxVars>>

\* run calling cancel() first and server.Shutdown after it.
RunShutdownCancelsFirst ==
    /\ runPc = "gotDone"
    /\ inShutdown' = TRUE
    /\ cancelCalls' = cancelCalls + 1
    /\ runPc' = "draining"
    /\ UNCHANGED <<env, srvPc, listens, errChan, ctxDone, deadline,
                   runErr, exitCode, triggers, selectSaw, midFlight, reqVars, auxVars>>

\* Lines 80-88: run logs "shutting down server" and calls server.Shutdown
\* with a context of 10 s; the listener closes.
RunShutdown ==
    /\ runPc = "gotDone"
    /\ inShutdown' = TRUE
    /\ runPc' = "draining"
    /\ UNCHANGED <<env, srvPc, listens, errChan, ctxDone, cancelCalls, deadline,
                   runErr, exitCode, triggers, selectSaw, midFlight, reqVars, auxVars>>

\* The 10 s of the shutdown context elapse with a request still in flight.
GraceElapses ==
    /\ Alive /\ runPc = "draining" /\ ~deadline
    /\ InFlight # {}
    /\ deadline' = TRUE
    /\ UNCHANGED <<env, runPc, srvPc, listens, errChan, ctxDone, cancelCalls, inShutdown,
                   runErr, exitCode, triggers, selectSaw, midFlight, reqVars, auxVars>>

\* server.Close in place of server.Shutdown: it does not wait for requests.
ShutdownNoWait(active, expired) ==
    IF expired THEN DeadlineExceeded ELSE NoErr

\* server.Shutdown(ctx): what it returns, or "wait" while it blocks. active:
\* the connections with a request in flight; expired: ctx is done.
Shutdown(active, expired) ==
    IF expired THEN DeadlineExceeded
    ELSE IF active = {} THEN NoErr
    ELSE "wait"

\* run dropping Shutdown's error and returning nil all the same.
afterShutdownDropsError(err) ==
    [err |-> NoErr, cancels |-> 1, pc |-> "ret_nil"]

\* Lines 88-94: what run returns once Shutdown has returned err.
afterShutdown(err) ==
    IF err # NoErr
    THEN [err |-> "server shutdown: " \o err, cancels |-> 0, pc |-> "ret_shutdown"]
    ELSE [err |-> NoErr, cancels |-> 1, pc |-> "ret_nil"]

\* server.Shutdown returns and run returns.
RunShutdownReturns ==
    /\ runPc = "draining"
    /\ Shutdown(InFlight, deadline) # "wait"
    /\ LET r == afterShutdown(Shutdown(InFlight, deadline)) IN
        /\ runErr' = r.err
        /\ cancelCalls' = cancelCalls + r.cancels
        /\ runPc' = r.pc
    /\ UNCHANGED <<env, srvPc, listens, errChan, ctxDone, inShutdown, deadline,
                   exitCode, triggers, selectSaw, midFlight, reqVars, auxVars>>

\* main, lines 25-28: the exit code for what run returned.
main(err) == IF err # NoErr THEN 1 ELSE 0

\* run has returned to main and the process exits.
MainExit ==
    /\ Alive
    /\ runPc \in {"ret_config", "ret_err", "ret_shutdown", "ret_nil"}
    /\ exitCode' = main(runErr)
    /\ UNCHANGED <<env, runPc, srvPc, listens, errChan, ctxDone, cancelCalls, inShutdown,
                   deadline, runErr, triggers, selectSaw, midFlight, reqVars, auxVars>>

----------------------------------------------------------------------------
\* No upstream call made, no handler chosen, no health request begun.
AuxInit ==
    /\ upCall = [c \in Conns |-> NoCall]
    /\ route = [c \in Conns |-> NoRoute]
    /\ now = 0
    /\ resUptime = NoString
    /\ hPc = [h \in HealthReqs |-> "idle"]
    /\ hNew = [h \in HealthReqs |-> 0]
    /\ hCopy = [h \in HealthReqs |-> NoString]

Init ==
    /\ env \in Envs
    /\ runPc = "config"
    /\ srvPc = "idle"
    /\ listens = 0
    /\ errChan = <<>>
    /\ ctxDone = FALSE
    /\ cancelCalls = 0
    /\ inShutdown = FALSE
    /\ deadline = FALSE
    /\ runErr = Running
    /\ exitCode = NoExit
    /\ triggers = <<>>
    /\ selectSaw = {}
    /\ midFlight = {}
    /\ reqPc = [c \in Conns |-> "idle"]
    /\ recWr = [c \in Conns |-> responseRecorder]
    /\ accWr = [c \in Conns |-> responseRecorder]
    /\ sink = [c \in Conns |-> <<>>]
    /\ nOps = [c \in Conns |-> 0]
    /\ fault = [c \in Conns |-> NoFault]
    /\ accessLog = [c \in Conns |-> <<>>]
    /\ errorLog = [c \in Conns |-> <<>>]
    /\ afterFault = FALSE
    /\ AuxInit

\* The process once it serves: the environment is complete, ListenAndServe
\* has bound the port and run is parked in its select.
InitServing ==
    /\ env = [PORT |-> "8080", PANGOLIN_TOKEN |-> TRUE,
              PANGOLIN_HOST |-> TRUE, PANGOLIN_ORG |-> TRUE]
    /\ runPc = "parked"
    /\ srvPc = "listening"
    /\ listens = 1
    /\ errChan = <<>>
    /\ ctxDone = FALSE
    /\ cancelCalls = 0
    /\ inShutdown = FALSE
    /\ deadline = FALSE
    /\ runErr = Running
    /\ exitCode = NoExit
    /\ triggers = <<>>
    /\ selectSaw = {}
    /\ midFlight = {}
    /\ reqPc = [c \in Conns |-> "idle"]
    /\ recWr = [c \in Conns |-> responseRecorder]
    /\ accWr = [c \in Conns |-> responseRecorder]
    /\ sink = [c \in Conns |-> <<>>]
    /\ nOps = [c \in Conns |-> 0]
    /\ fault = [c \in Conns |-> NoFault]
    /\ accessLog = [c \in Conns |-> <<>>]
    /\ errorLog = [c \in Conns |-> <<>>]
    /\ afterFault = FALSE
    /\ AuxInit

\* The steps of run, main and the serving goroutine.
LifeNext ==
    \/ RunConfig
    \/ ServeListen
    \/ ServeListenFails
    \/ ServeStops
    \/ Signal
    \/ RunSelect
    \/ RunReturnErr
    \/ RunShutdown
    \/ GraceElapses
    \/ RunShutdownReturns
    \/ MainExit

\* The steps of one request through recovery, accesslog and its handler.
PipelineNext ==
    \/ \E c \in Conns : Accept(c)
    \/ \E c \in Conns, code \in Codes : HandlerWriteHeader(c, code)
    \/ \E c \in Conns, b \in Bodies : HandlerWrite(c, b)
    \/ \E c \in Conns, v \in Faults \cup {NoFault} : HandlerEnds(c, v)

\* Requests whose handlers end without touching the response.
SilentNext ==
    \/ \E c \in Conns : Accept(c)
    \/ \E c \in Conns, v \in Faults \cup {NoFault} : HandlerEnds(c, v)

\* Requests served by the handlers of POST /register/{id} and GET /.
RoutesNext ==
    \/ \E c \in Conns : Accept(c)
    \/ \E c \in Conns, id \in {"1", "x"}, ip \in {"10.0.0.1", "192.168.1.7", ""},
          resp \in Responses(RuleDocs, ZeroRule) : ServeRegister(c, id, ip, resp)
    \/ \E c \in Conns, path \in {"/", "/favicon.ico"}, executes \in BOOLEAN,
          resp \in Responses(ResourceDocs, ZeroResources) :
            ServeHomePage(c, path, resp, executes)

\* Requests served by the handler of GET /health.
HealthNext ==
    \/ Tick
    \/ \E h \in HealthReqs : HealthSince(h)
    \/ \E h \in HealthReqs : HealthStorePtr(h)
    \/ \E h \in HealthReqs : HealthStoreLen(h)
    \/ \E h \in HealthReqs : HealthLoadPtr(h)
    \/ \E h \in HealthReqs : HealthLoadLen(h)
    \/ \E h \in HealthReqs : HealthEncode(h)

Next == LifeNext \/ PipelineNext

\* The whole process.
Spec == Init /\ [][Next]_vars

\* The pipeline of a process that keeps serving.
SpecPipeline == InitServing /\ [][PipelineNext]_vars

\* The lifecycle, with requests that come and go.
SpecRun == Init /\ [][LifeNext \/ SilentNext]_vars

\* The route handlers of a process that keeps serving, and the upstream
\* calls they make.
SpecRoutes == InitServing /\ [][RoutesNext]_vars

\* Concurrent health checks of a process that keeps serving.
SpecHealth == InitServing /\ [][HealthNext]_vars

----------------------------------------------------------------------------
\* What the properties below read off a state.

\* The state of the orchestrator, from where run is.
OrchState ==
    CASE runPc = "config" -> "Starting"
      [] runPc \in {"select", "parked"} -> "Serving"
      [] runPc \in {"gotDone", "draining"} -> "Draining"
      [] runPc = "ret_nil" -> "Stopped"
      [] OTHER -> "Failed"

\* The trigger run's select took.
Honoured ==
    CASE runPc \in {"gotErr", "ret_err"} -> "err"
      [] runPc \in {"gotDone", "draining", "ret_shutdown", "ret_nil"} -> "sig"
      [] OTHER -> "none"

Range(q) == {q[i] : i \in DOMAIN q}
ByHandler(call) == call.by = "handler"
ByRecovery(call) == call.by = "recovery"
HandlerHeader(call) == call.by = "handler" /\ call.op = "WriteHeader"
HandlerCalls(c) == SelectSeq(sink[c], ByHandler)
RecoveryCalls(c) == SelectSeq(sink[c], ByRecovery)
HandlerHeaders(c) == SelectSeq(sink[c], HandlerHeader)
Ended(c) == reqPc[c] \in {"done", "escaped"}
Faulted(c) == Ended(c) /\ fault[c] # NoFault
\* The benign client-abort signal: http.ErrAbortHandler, bare or wrapped.
Benign(v) == v \in {ErrAbortHandler, WrappedAbort}
ServeErrors == {ErrBind, ErrAccept}
Returned == runPc \in {"ret_config", "ret_err", "ret_shutdown", "ret_nil"}

----------------------------------------------------------------------------
\* C1: every request that has gone through the pipeline, whether its handler
\* returned or panicked, has exactly one access-log entry.
C1_OneAccessLogEntry ==
    \A c \in Conns : Ended(c) => Len(accessLog[c]) = 1

\* C2: after the handler's WriteHeader calls c1, c2, ... both recorders hold
\* c1, the first code, and every call has reached the server's writer.
C2_FirstStatusKept ==
    \A c \in Conns :
        HandlerHeaders(c) # <<>> =>
            /\ accWr[c].status = HandlerHeaders(c)[1].code
            /\ recWr[c].status = HandlerHeaders(c)[1].code
            /\ Len(HandlerCalls(c)) = nOps[c]

\* C3: when the handler has called WriteHeader and then panics, recovery
\* makes no call on the server's writer.
C3_NoSecondWrite ==
    \A c \in Conns :
        (Faulted(c) /\ HandlerHeaders(c) # <<>>) => RecoveryCalls(c) = <<>>

C3_Witness ==
    \E c \in Conns :
        /\ Faulted(c) /\ ~Benign(fault[c])
        /\ HandlerHeaders(c) # <<>>
        /\ errorLog[c] # <<>>

\* C4: when the handler panics with anything but the client-abort signal and
\* has set no status, recovery logs the fault once at error severity and
\* makes exactly two calls on the server's writer: WriteHeader(500) and one
\* Write of the fault's text (http.Error ends it with a newline); if the
\* handler had written nothing at all, 500 is the status sent.
C4_FaultBecomes500 ==
    \A c \in Conns :
        (Faulted(c) /\ ~Benign(fault[c]) /\ HandlerHeaders(c) = <<>>) =>
            /\ errorLog[c] = <<[level |-> "ERROR", msg |-> "panic!", error |-> fault[c].text]>>
            /\ RecoveryCalls(c) =
                 <<[op |-> "WriteHeader", code |-> 500, body |-> "", by |-> "recovery"],
                   [op |-> "Write", code |-> 0, body |-> fault[c].text \o "\n", by |-> "recovery"]>>
            /\ HandlerCalls(c) = <<>> => WireStatus(sink[c]) = 500

C4_Witness ==
    \E c \in Conns :
        /\ Faulted(c) /\ fault[c] = StringPanic
        /\ HandlerCalls(c) = <<>>
        /\ WireStatus(sink[c]) = 500

\* C6: when the handler panics with the client-abort signal, recovery logs
\* nothing and makes no call on the server's writer, whatever the handler
\* had written.
C6_AbortIsSilent ==
    \A c \in Conns :
        (Faulted(c) /\ Benign(fault[c])) =>
            /\ errorLog[c] = <<>>
            /\ RecoveryCalls(c) = <<>>
            /\ reqPc[c] = "done"

C6_Witness ==
    \E c \in Conns :
        /\ Faulted(c) /\ fault[c] = WrappedAbort
        /\ HandlerHeaders(c) = <<>>

\* C5: a panic in a handler never leaves recovery: the request ends in
\* recovery, and the step that recovers it leaves the orchestrator where it
\* was, so the server goes on serving.
C5_NoFaultEscapes ==
    \A c \in Conns :
        /\ reqPc[c] # "escaped"
        /\ fault[c] # NoFault => reqPc[c] = "done"

C5_Witness ==
    /\ afterFault
    /\ OrchState = "Serving" /\ srvPc = "listening" /\ Alive
    /\ \E c \in Conns : reqPc[c] = "done" /\ fault[c] = NoFault /\ Len(accessLog[c]) = 1

\* C7 as claimed: the trigger run honours is the one that occurred first; a
\* serve error reported before the signal is returned without Draining, and
\* after a signal that came first no serve error is returned.
C7_FirstTriggerWins ==
    (Returned /\ triggers # <<>>) =>
        IF triggers[1] = "err"
        THEN runPc = "ret_err" /\ runErr \in ServeErrors /\ ~inShutdown
        ELSE runPc \in {"ret_nil", "ret_shutdown"} /\ runErr \notin ServeErrors

\* C7 as amended: run honours exactly one trigger, one that has occurred;
\* it is the first to occur unless both had occurred before run evaluated
\* its select. Honouring the serve error, run never calls Shutdown or
\* cancel and returns that error; honouring the signal, it never returns a
\* serve error and leaves errChan unread.
C7_OneTriggerHonoured ==
    /\ Honoured # "none" => Honoured \in Range(triggers)
    /\ (Honoured # "none" /\ Cardinality(selectSaw) < 2) => Honoured = triggers[1]
    /\ Honoured = "err" => ~inShutdown /\ cancelCalls = 0
    /\ runPc = "ret_err" => runErr \in ServeErrors
    /\ Honoured = "sig" =>
         /\ runErr \notin ServeErrors
         /\ Len(errChan) = Cardinality({i \in DOMAIN triggers : triggers[i] = "err"})

C7_Witness ==
    /\ triggers = <<"err", "sig">>
    /\ selectSaw = {}
    /\ runPc = "ret_err" /\ exitCode = 1

\* C8: when the signal arrives with a request in flight and the 10 s do not
\* elapse first, Shutdown returns only once no request is in flight, run
\* then returns nil after one cancel() and the process exits with 0.
C8_DrainWaits ==
    /\ runPc = "ret_nil" =>
         /\ InFlight = {}
         /\ \A c \in midFlight : reqPc[c] = "done"
         /\ runErr = NoErr
         /\ exitCode \in {NoExit, 0}
    /\ (runPc \in {"ret_nil", "ret_shutdown"} /\ ~deadline) => runPc = "ret_nil"

C8_Witness ==
    /\ midFlight # {}
    /\ runPc = "ret_nil" /\ ~deadline
    /\ exitCode = 0

\* C9: once the 10 s have elapsed during Draining with a request in flight,
\* Shutdown returns the context's error, run returns it wrapped, never nil,
\* and the process exits with 1.
C9_GraceExceeded ==
    deadline =>
        /\ Returned => (runPc = "ret_shutdown" /\ runErr = "server shutdown: context deadline exceeded")
        /\ ~Alive => exitCode = 1

C9_Witness ==
    /\ deadline
    /\ runPc = "ret_shutdown"
    /\ exitCode = 1

\* C10 as claimed: an error of the serving listener, reported before any
\* signal while run is still Serving, ends run in Failed with that error.
C10_ServeErrorFails ==
    (/\ Returned /\ triggers # <<>> /\ triggers[1] = "err"
     /\ (ErrAccept \in Range(errChan) \/ runErr = ErrAccept)) =>
        runPc = "ret_err" /\ runErr = ErrAccept

\* C10 as amended: a serve error reported while Serving moves the
\* orchestrator to Failed unless the signal had also arrived before run
\* evaluated its select and the select took the signal. In Failed run
\* returns that error and the process exits with 1; ListenAndServe is
\* called at most once; http.ErrServerClosed is never sent on errChan nor
\* returned.
C10_FailedOnServeError ==
    /\ (Honoured # "none" /\ triggers[1] = "err" /\ Cardinality(selectSaw) < 2) =>
         Honoured = "err"
    /\ runPc = "ret_err" =>
         /\ runErr \in ServeErrors
         /\ ~Alive => exitCode = 1
    /\ listens <= 1
    /\ ErrServerClosed \notin Range(errChan)
    /\ runErr # ErrServerClosed

C10_Witness ==
    /\ triggers = <<"err">>
    /\ runPc = "ret_err" /\ runErr = ErrAccept
    /\ exitCode = 1
    /\ srvPc = "exited" /\ listens = 1

\* A required value is absent from the environment, or PORT is no integer.
EnvIncomplete ==
    \/ env.PORT \in {Unset, "http"}
    \/ ~env.PANGOLIN_TOKEN \/ ~env.PANGOLIN_HOST \/ ~env.PANGOLIN_ORG

\* C11: with PORT, PANGOLIN_TOKEN, PANGOLIN_HOST or PANGOLIN_ORG absent, or
\* PORT not an integer, run returns an error before the serving goroutine
\* exists: ListenAndServe is never called, run never waits in its select, and
\* the process exits with 1.
C11_ConfigFailsFast ==
    EnvIncomplete =>
        /\ runPc \in {"config", "ret_config"}
        /\ srvPc = "idle" /\ listens = 0
        /\ OrchState \in {"Starting", "Failed"}
        /\ runPc = "ret_config" => runErr \notin {NoErr, Running}
        /\ ~Alive => exitCode = 1

C11_Witness ==
    /\ env = [PORT |-> "8080", PANGOLIN_TOKEN |-> TRUE,
              PANGOLIN_HOST |-> TRUE, PANGOLIN_ORG |-> FALSE]
    /\ runErr = "failed to find env PANGOLIN_ORG"
    /\ exitCode = 1

C16_ImplicitStatusIsSent ==
    \A c \in Conns :
        (/\ Faulted(c)
         /\ HandlerCalls(c) # <<>> /\ HandlerCalls(c)[1].op = "Write"
         /\ HandlerHeaders(c) = <<>>) =>
            RecoveryCalls(c) = <<>>

\* The upstream calls made so far that got a response.
Calls(op) == {c \in Conns : upCall[c].op = op /\ upCall[c].transport = "ok"}

\* The envelope the body of c's response holds, if the body parses.
Parses(c) == upCall[c].readable /\ upCall[c].doc.json
Envelope(c, zero) == Unmarshal(upCall[c].doc, zero)

\* C12: GetResources answers every upstream status but 200 with an error that
\* carries the status text, whatever the body holds, after one attempt; with
\* status 200 and a well-formed envelope it returns the envelope's resources.
C12_ListResources ==
    \A c \in Calls("GetResources") :
        /\ upCall[c].tries = 1
        /\ upCall[c].code # 200 =>
            /\ upCall[c].err = "error status code: " \o StatusText(upCall[c].code)
            /\ upCall[c].val = <<>>
        /\ (upCall[c].code = 200 /\ Parses(c) /\ "data" \in upCall[c].doc.has) =>
            /\ upCall[c].err = NoErr
            /\ upCall[c].val = <<upCall[c].doc.val.data>>

C12_Witness ==
    \E c \in Calls("GetResources") :
        /\ upCall[c].code = 503
        /\ Parses(c) /\ upCall[c].doc.has = EnvelopeFields
        /\ upCall[c].err = "error status code: 503 Service Unavailable"
        /\ reqPc[c] = "done"

\* C13: when the upstream answers GetResources with status 200 and an
\* envelope whose error is true, the call does not return the envelope's data
\* as a success.
C13_ErrorFlagChecked ==
    \A c \in Calls("GetResources") :
        (upCall[c].code = 200 /\ Parses(c) /\ Envelope(c, ZeroResources).error) =>
            (upCall[c].err # NoErr /\ upCall[c].val = <<>>)

\* C14: once CreateRule has a response whose body parses, the envelope alone
\* decides, for every status: error true gives an error carrying the
\* envelope's message, error false gives the envelope's data.
C14_EnvelopeDecides ==
    \A c \in Calls("CreateRule") :
        Parses(c) =>
            IF Envelope(c, ZeroRule).error
            THEN /\ upCall[c].err = "error: " \o Envelope(c, ZeroRule).message
                 /\ upCall[c].val = <<>>
            ELSE /\ upCall[c].err = NoErr
                 /\ upCall[c].val = <<Envelope(c, ZeroRule).data>>

C14_Witness ==
    \E c \in Calls("CreateRule") :
        /\ upCall[c].code = 400
        /\ Parses(c) /\ Envelope(c, ZeroRule).error
        /\ upCall[c].err = "error: duplicate rule"
        /\ reqPc[c] = "done"

\* C17: when a handler has completed without a fault, the status in the
\* access-log entry of its request is the status sent on the wire, also when
\* the handler wrote body bytes only.
C17_LoggedStatusIsSent ==
    \A c \in Conns :
        (reqPc[c] = "done" /\ fault[c] = NoFault /\ sink[c] # <<>>) =>
            /\ Len(accessLog[c]) = 1
            /\ accessLog[c][1].status = WireStatus(sink[c])

\* C18: no call of the client returns with the response body it obtained
\* still open.
C18_BodiesClosed ==
    \A c \in Conns : upCall[c].op # "none" => upCall[c].body # "open"

\* A health request between the two stores of its assignment to res.Uptime,
\* or between the two loads of its copy of it.
Storing(h) == hPc[h] = "storeLen"
Loading(h) == hPc[h] = "loadLen"

\* C19: no two requests in flight are such that one writes a variable while
\* the other reads or writes it.
C19_NoSharedWrite ==
    \A a, b \in HealthReqs :
        a # b => ~(Storing(a) /\ (Storing(b) \/ Loading(b)))

====
